---------------------------- MODULE Spec2Model ----------------------------
(***************************************************************************)
(* The per-frame detection pipeline of the visual-assistance app, in its   *)
(* two copies: the web ObjectDetector component (src/unnamed/part_004) and *)
(* the mobile CameraScreen frame processor                                 *)
(* (src/mobile/screens/CameraScreen.tsx).                                  *)
(*                                                                         *)
(* Numbers.  JavaScript numbers are modelled by integers in a fixed unit   *)
(* per kind of quantity:                                                   *)
(*   - lengths and positions: pixels (inputs are chosen so that every      *)
(*     halving and scaling the code performs is exact);                    *)
(*   - scores: thousandths (0.08 is 80, 0.05 is 50);                       *)
(*   - a class-index cell of an end-to-end row: tenths (39.5 is 395), so   *)
(*     that Math.round is a real rounding;                                 *)
(*   - a ratio the code compares with a decimal literal (area ratio, IoU)  *)
(*     is kept as numerator and denominator and compared by                *)
(*     cross-multiplication;                                               *)
(*   - time: milliseconds.                                                 *)
(* NaN (what Number(undefined) and every arithmetic on it gives) is a      *)
(* distinguished value: arithmetic propagates it, comparisons with it are  *)
(* false.                                                                  *)
(***************************************************************************)
EXTENDS Integers, Sequences, FiniteSets, TLC

VARIABLES
    \* --- suppression on its own (NMSSpec)
    items,          \* a candidate list handed to the suppressors
    webOut,         \* [ran, out]: web applyNMS(items)
    mobOut,         \* [ran, out]: mobile applyNMS(items)
    webTwice,       \* [ran, out]: web applyNMS of webOut.out
    mobTwice,       \* [ran, out]: mobile applyNMS of mobOut.out
    \* --- the mobile camera screen (Spec, DecodeSpec)
    mData,          \* outputs[0] of the frame last handed to the frame processor
    mResults,       \* its decoded and gated candidates (`results`, before NMS)
    mDetections,    \* React state `detections`: the published list
    mProcessed,     \* number of frames the frame processor has processed (capped)
    mClock,         \* ms since the screen mounted
    mLastRun,       \* runAtTargetFps: time of the last admitted frame
    mSpoken,        \* log of speak() calls: <<[t, msg, uttered]>>
    mMounted,       \* the screen is mounted (camera and interval active)
    \* --- the web detector (Spec, DecodeSpec)
    clock,              \* performance.now()
    detector,           \* "coco" or "yolo": the model the detect callback closes over
    lastDetectTimeRef,
    lastVoiceTimeRef,
    detectionsRef,
    inflight,           \* detect() calls suspended at their await
    spoken,             \* log of speakAlert() calls: <<[t, at, msg, uttered]>>
    rafActive,          \* a requestAnimationFrame(detect) is pending
    lastEval,           \* what the detect() call that completed last did (observer)
    \* --- both pipelines over time (Spec)
    frames,             \* frames seen so far: animation frames, or camera frames
    \* --- the page's first detector, src/unnamed/part_005 (Spec)
    graphLoop,          \* [at, last]: where its detect() loop stands, and how
                        \* the frame before ended
    \* --- the classifiers and the alert builders on their own (PureSpec)
    sample,             \* the argument: a box in a frame, or a detection list
    outcome             \* what the functions returned for it

nmsVars    == <<items, webOut, mobOut, webTwice, mobTwice>>
mobileVars == <<mData, mResults, mDetections, mProcessed, mClock, mLastRun,
                mSpoken, mMounted>>
webVars    == <<clock, detector, lastDetectTimeRef, lastVoiceTimeRef, detectionsRef,
                inflight, spoken, rafActive, lastEval>>
pureVars   == <<sample, outcome>>
vars       == <<nmsVars, mobileVars, webVars, frames, pureVars, graphLoop>>

---------------------------------------------------------------------------
(* Program constants *)

FRAME_SIZE == 640
VOICE_ALERT_INTERVAL_MS == 4000
DETECT_INTERVAL_MS == 120
MIN_CONFIDENCE == 80
MIN_CONFIDENCE_PHONE_BOTTLE == 50
MAX_DETECTIONS == 40
MAX_DETECTIONS_DRAWN == 40
NMS_IOU_THRESHOLD == 45
LAYOUT_THRESHOLD == 5000
numAnchors == 8400
numClass == 80
PRIORITY_CLASSES == {"cell phone", "bottle"}

CLASS_NAMES ==
  <<
    "person", "bicycle", "car", "motorcycle", "airplane", "bus",
    "train", "truck", "boat", "traffic light", "fire hydrant", "stop sign",
    "parking meter", "bench", "bird", "cat", "dog", "horse",
    "sheep", "cow", "elephant", "bear", "zebra", "giraffe",
    "backpack", "umbrella", "handbag", "tie", "suitcase", "frisbee",
    "skis", "snowboard", "sports ball", "kite", "baseball bat", "baseball glove",
    "skateboard", "surfboard", "tennis racket", "bottle", "wine glass", "cup",
    "fork", "knife", "spoon", "bowl", "banana", "apple",
    "sandwich", "orange", "broccoli", "carrot", "hot dog", "pizza",
    "donut", "cake", "chair", "couch", "potted plant", "bed",
    "dining table", "toilet", "tv", "laptop", "mouse", "remote",
    "keyboard", "cell phone", "microwave", "oven", "toaster", "sink",
    "refrigerator", "book", "clock", "vase", "scissors", "teddy bear",
    "hair drier", "toothbrush"
  >>

\* The only DISPLAY_LABELS table among the sources is the web one; the mobile
\* screen imports a table of the same name from its detection service.
DISPLAY_LABELS ==
  ("cell phone" :> "phone") @@
  ("book" :> "book / paper") @@
  ("laptop" :> "laptop / computer") @@
  ("dining table" :> "table") @@
  ("bottle" :> "bottle / water bottle") @@
  ("cup" :> "cup / mug") @@
  ("wine glass" :> "glass") @@
  ("remote" :> "remote") @@
  ("handbag" :> "bag") @@
  ("backpack" :> "backpack / bag") @@
  ("suitcase" :> "bag") @@
  ("tv" :> "TV / monitor") @@
  ("keyboard" :> "keyboard") @@
  ("mouse" :> "mouse") @@
  ("chair" :> "chair") @@
  ("couch" :> "couch / sofa") @@
  ("potted plant" :> "plant") @@
  ("toilet" :> "toilet") @@
  ("sink" :> "sink") @@
  ("refrigerator" :> "refrigerator") @@
  ("oven" :> "oven") @@
  ("microwave" :> "microwave") @@
  ("toaster" :> "toaster") @@
  ("clock" :> "clock") @@
  ("fork" :> "fork") @@
  ("knife" :> "knife") @@
  ("spoon" :> "spoon") @@
  ("bowl" :> "bowl") @@
  ("apple" :> "apple") @@
  ("banana" :> "banana") @@
  ("orange" :> "orange") @@
  ("pizza" :> "pizza") @@
  ("sandwich" :> "sandwich")

---------------------------------------------------------------------------
(* JavaScript numbers and strings *)

NaN == -1000000
Undefined == "undefined"

IsNaN(a) == a = NaN
Add(a, b) == IF IsNaN(a) \/ IsNaN(b) THEN NaN ELSE a + b
Sub(a, b) == IF IsNaN(a) \/ IsNaN(b) THEN NaN ELSE a - b
Mul(a, b) == IF IsNaN(a) \/ IsNaN(b) THEN NaN ELSE a * b
\* variant: no halving
Half_whole(a) == a

Half(a)   == IF IsNaN(a) THEN NaN ELSE a \div 2
Gt(a, b)  == ~IsNaN(a) /\ ~IsNaN(b) /\ a > b
Lt(a, b)  == ~IsNaN(a) /\ ~IsNaN(b) /\ a < b
\* Math.max / Math.min: NaN if either argument is NaN
MathMax(a, b) == IF IsNaN(a) \/ IsNaN(b) THEN NaN ELSE IF a > b THEN a ELSE b
MathMin(a, b) == IF IsNaN(a) \/ IsNaN(b) THEN NaN ELSE IF a < b THEN a ELSE b
\* Math.round of a value held in tenths: floor(v + 0.5)
MathRound(v) == IF IsNaN(v) THEN NaN ELSE (v + 5) \div 10

\* names[i]: undefined outside the array
NameAt(names, i) == IF i \in 0..(Len(names) - 1) THEN names[i + 1] ELSE Undefined

\* DISPLAY_LABELS[raw] ?? raw
DisplayLabel(raw) == IF raw \in DOMAIN DISPLAY_LABELS THEN DISPLAY_LABELS[raw] ELSE raw

\* String(cls)
String(cls) == IF IsNaN(cls) THEN "NaN" ELSE ToString(cls)

\* The labels a detection can carry, in the order of JavaScript's string `<`.
LabelOrder ==
  <<
    "TV / monitor", "airplane", "apple", "backpack", "backpack / bag", "bag",
    "banana", "baseball bat", "baseball glove", "bear", "bed", "bench",
    "bicycle", "bird", "boat", "book", "book / paper", "bottle",
    "bottle / water bottle", "bowl", "broccoli", "bus", "cake", "car",
    "carrot", "cat", "cell phone", "chair", "clock", "couch",
    "couch / sofa", "cow", "cup", "cup / mug", "dining table", "dog",
    "donut", "elephant", "fire hydrant", "fork", "frisbee", "giraffe",
    "glass", "hair drier", "handbag", "horse", "hot dog", "keyboard",
    "kite", "knife", "laptop", "laptop / computer", "microwave", "motorcycle",
    "mouse", "orange", "oven", "parking meter", "person", "phone",
    "pizza", "plant", "potted plant", "refrigerator", "remote", "sandwich",
    "scissors", "sheep", "sink", "skateboard", "skis", "snowboard",
    "spoon", "sports ball", "stop sign", "suitcase", "surfboard", "table",
    "teddy bear", "tennis racket", "tie", "toaster", "toilet", "toothbrush",
    "traffic light", "train", "truck", "tv", "umbrella", "unknown",
    "vase", "wine glass", "zebra"
  >>

LabelRank(l) == CHOOSE i \in 1..Len(LabelOrder) : LabelOrder[i] = l
StrLess(a, b) == LabelRank(a) < LabelRank(b)

---------------------------------------------------------------------------
(* Spatial classifier *)

\* getProximity(areaRatio), the ratio given as area / frameArea
getProximity(area, frameArea) ==
    IF Gt(Mul(area, 100), Mul(12, frameArea)) THEN "close"
    ELSE IF Gt(Mul(area, 1000), Mul(35, frameArea)) THEN "medium"
    ELSE "far"

\* getDirection(centerX, frameWidth): third = frameWidth / 3
getDirection(centerX, frameW) ==
    IF Lt(Mul(3, centerX), frameW) THEN "left"
    ELSE IF Gt(Mul(3, centerX), Mul(2, frameW)) THEN "right"
    ELSE "center"

\* the phone's getProximity(areaRatio) and getDirection(centerX, frameW)
\* a variant with the thresholds 0.15 and 0.04
getProximity_mobile_coarse(area, frameArea) ==
    IF Gt(Mul(area, 100), Mul(15, frameArea)) THEN "close"
    ELSE IF Gt(Mul(area, 100), Mul(4, frameArea)) THEN "medium"
    ELSE "far"

getProximity_mobile(area, frameArea) ==
    IF Gt(Mul(area, 100), Mul(12, frameArea)) THEN "close"
    ELSE IF Gt(Mul(area, 1000), Mul(35, frameArea)) THEN "medium"
    ELSE "far"

\* a variant that takes the left band up to and including the third
getDirection_mobile_inclusive(centerX, frameW) ==
    IF ~Gt(Mul(3, centerX), frameW) THEN "left"
    ELSE IF Gt(Mul(3, centerX), Mul(2, frameW)) THEN "right"
    ELSE "center"

getDirection_mobile(centerX, frameW) ==
    IF Lt(Mul(3, centerX), frameW) THEN "left"
    ELSE IF Gt(Mul(3, centerX), Mul(2, frameW)) THEN "right"
    ELSE "center"

\* estimateProximity(bbox, frameWidth, frameHeight) of the page's
\* ObjectDetector component: bbox is [x, y, w, h]
estimateProximity(bbox, frameWidth, frameHeight) ==
    LET bboxArea  == Mul(bbox[3], bbox[4])
        frameArea == Mul(frameWidth, frameHeight)
    IN  IF Gt(Mul(bboxArea, 100), Mul(12, frameArea)) THEN "close"
        ELSE IF Gt(Mul(bboxArea, 1000), Mul(25, frameArea)) THEN "medium"
        ELSE "far"

---------------------------------------------------------------------------
(* Suppression *)

\* boxIoU(a, b) as the ratio [num, den]; 0 when the union is not positive
boxIoU(a, b) ==
    LET interLeft   == MathMax(a.x, b.x)
        interTop    == MathMax(a.y, b.y)
        interRight  == MathMin(Add(a.x, a.w), Add(b.x, b.w))
        interBottom == MathMin(Add(a.y, a.h), Add(b.y, b.h))
        interW      == MathMax(0, Sub(interRight, interLeft))
        interH      == MathMax(0, Sub(interBottom, interTop))
        interArea   == Mul(interW, interH)
        areaA       == Mul(a.w, a.h)
        areaB       == Mul(b.w, b.h)
        union       == Sub(Add(areaA, areaB), interArea)
    IN  IF Gt(union, 0) THEN [num |-> interArea, den |-> union]
        ELSE [num |-> 0, den |-> 1]

\* boxIoU(d, k) > NMS_IOU_THRESHOLD
\* variant: suppress only above an overlap of 0.95
OverThreshold_95(r) == r.num * 100 > 95 * r.den

OverThreshold(r) == r.num * 100 > NMS_IOU_THRESHOLD * r.den

\* variant: the lower score first
ScoreBefore_low(a, b) == a.score - b.score < 0

\* (a, b) => b.score - a.score
ScoreBefore(a, b) == b.score - a.score < 0

\* Array.prototype.sort(compare) is a stable sort: element i comes before
\* element j when compare puts it first, or puts neither first and i < j.
\* out.sort((a, b) => b.score - a.score)
SortByScoreDesc(s) ==
    LET n == Len(s)
        Precedes(i, j) == \/ ScoreBefore(s[i], s[j])
                          \/ (~ScoreBefore(s[j], s[i]) /\ i < j)
        Position(i) == Cardinality({j \in 1..n : Precedes(j, i)}) + 1
    IN  [k \in 1..n |-> s[CHOOSE i \in 1..n : Position(i) = k]]

\* the labels of a list in the order of their first occurrence (Map insertion order)
RECURSIVE LabelsOf(_, _)
LabelsOf(s, seen) ==
    IF s = <<>> THEN seen
    ELSE IF \E i \in 1..Len(seen) : seen[i] = Head(s).label
         THEN LabelsOf(Tail(s), seen)
         ELSE LabelsOf(Tail(s), Append(seen, Head(s).label))

\* web: the inner loop over one label's list, sorted by score
RECURSIVE KeepOfList(_, _)
KeepOfList(list, keep) ==
    IF list = <<>> THEN keep
    ELSE IF \E k \in 1..Len(keep) : OverThreshold(boxIoU(Head(list), keep[k]))
         THEN KeepOfList(Tail(list), keep)
         ELSE KeepOfList(Tail(list), Append(keep, Head(list)))

RECURSIVE KeepByLabel(_, _)
KeepByLabel(s, labels) ==
    IF labels = <<>> THEN <<>>
    ELSE LET l    == Head(labels)
             list == SortByScoreDesc(SelectSeq(s, LAMBDA d : d.label = l))
         IN  KeepOfList(list, <<>>) \o KeepByLabel(s, Tail(labels))

\* variant: the shortcut for short lists returns an empty list
applyNMS_short(s) ==
    IF Len(s) <= 1 THEN <<>>
    ELSE SortByScoreDesc(KeepByLabel(s, LabelsOf(s, <<>>)))

\* web applyNMS
applyNMS(s) ==
    IF Len(s) <= 1 THEN s
    ELSE SortByScoreDesc(KeepByLabel(s, LabelsOf(s, <<>>)))

\* mobile: items.sort by class, then by score descending (stable)
ClassScoreBefore(a, b) ==
    IF a.label = b.label THEN b.score - a.score < 0
    ELSE StrLess(a.label, b.label)

SortByClassScore(s) ==
    LET n == Len(s)
        Precedes(i, j) == \/ ClassScoreBefore(s[i], s[j])
                          \/ (~ClassScoreBefore(s[j], s[i]) /\ i < j)
        Position(i) == Cardinality({j \in 1..n : Precedes(j, i)}) + 1
    IN  [k \in 1..n |-> s[CHOOSE i \in 1..n : Position(i) = k]]

\* mobile: the loop over the sorted items against all kept items
RECURSIVE KeptOf(_, _)
KeptOf(list, kept) ==
    IF list = <<>> THEN kept
    ELSE IF \E k \in 1..Len(kept) :
               /\ kept[k].label = Head(list).label
               /\ OverThreshold(boxIoU(Head(list), kept[k]))
         THEN KeptOf(Tail(list), kept)
         ELSE KeptOf(Tail(list), Append(kept, Head(list)))

\* mobile applyNMS
applyNMS_mobile(s) ==
    IF Len(s) <= 1 THEN s
    ELSE SortByScoreDesc(KeptOf(SortByClassScore(s), <<>>))

---------------------------------------------------------------------------
(* The mobile frame processor: decode, gate, suppress, publish *)

\* Number(data[i]) on the output buffer.  A buffer is [len, cells]: cells
\* gives the elements that are not 0; an index outside the buffer reads
\* undefined, which Number() turns into NaN.
Read(data, i) ==
    IF i < 0 \/ i >= data.len THEN NaN
    ELSE IF i \in DOMAIN data.cells THEN data.cells[i]
    ELSE 0

\* CLASS_NAMES[i] || 'unknown'
RawClassOf(i) ==
    LET n == NameAt(CLASS_NAMES, i) IN IF n = Undefined THEN "unknown" ELSE n

\* isPhoneOrBottle ? MIN_CONFIDENCE_PHONE_BOTTLE : MIN_CONFIDENCE
MinConfMobile(rawClass) ==
    IF rawClass = "cell phone" \/ rawClass = "bottle"
    THEN MIN_CONFIDENCE_PHONE_BOTTLE ELSE MIN_CONFIDENCE

\* the gate of the mobile decoder: score > minConf
PassesMobile(score, rawClass) == Gt(score, MinConfMobile(rawClass))

\* the elements of a finite set of integers in increasing order
Ascending(S) ==
    [k \in 1..Cardinality(S) |->
        CHOOSE x \in S : Cardinality({y \in S : y < x}) = k - 1]

\* end-to-end branch: the loop index runs while i < numElements / 6
EndToEndRows(data) == 0..(((data.len + 5) \div 6) - 1)

EndToEndRawClass(data, i) == RawClassOf(MathRound(Read(data, i * 6 + 5)))

EndToEndItem(data, i) ==
    LET offset   == i * 6
        score    == Read(data, offset + 4)
        rawClass == EndToEndRawClass(data, i)
        cx == Read(data, offset + 0)
        cy == Read(data, offset + 1)
        w  == Read(data, offset + 2)
        h  == Read(data, offset + 3)
        x  == Sub(cx, Half(w))
        y  == Sub(cy, Half(h))
        centerX == Add(x, Half(w))
    IN  [ label     |-> DisplayLabel(rawClass),
          score     |-> score,
          x |-> x, y |-> y, w |-> w, h |-> h,
          proximity |-> getProximity_mobile(Mul(w, h), FRAME_SIZE * FRAME_SIZE),
          direction |-> getDirection_mobile(centerX, FRAME_SIZE),
          rawClass  |-> rawClass ]

DecodeEndToEnd(data) ==
    LET kept == {i \in EndToEndRows(data) :
                    PassesMobile(Read(data, i * 6 + 4), EndToEndRawClass(data, i))}
        order == Ascending(kept)
    IN  [k \in 1..Len(order) |-> EndToEndItem(data, order[k])]

\* dense branch: the loop over the class rows of anchor i, from class c on
\* a variant of the scan that moves on to a later class of equal score
RECURSIVE ArgMax_last(_, _, _, _, _)
ArgMax_last(data, i, c, maxScore, maxClass) ==
    IF c >= numClass THEN [maxScore |-> maxScore, maxClass |-> maxClass]
    ELSE LET score == Read(data, (4 + c) * numAnchors + i)
         IN  IF Gt(score, maxScore) \/ (score = maxScore /\ score > 0)
             THEN ArgMax_last(data, i, c + 1, score, c)
             ELSE ArgMax_last(data, i, c + 1, maxScore, maxClass)

RECURSIVE ArgMax(_, _, _, _, _)
ArgMax(data, i, c, maxScore, maxClass) ==
    IF c >= numClass THEN [maxScore |-> maxScore, maxClass |-> maxClass]
    ELSE LET score == Read(data, (4 + c) * numAnchors + i)
         IN  IF Gt(score, maxScore)
             THEN ArgMax(data, i, c + 1, score, c)
             ELSE ArgMax(data, i, c + 1, maxScore, maxClass)

DenseBest(data, i) == ArgMax(data, i, 0, 0, -1)

DenseKeeps(data, i) ==
    \E best \in {DenseBest(data, i)} :
        PassesMobile(best.maxScore, RawClassOf(best.maxClass))

DenseItem(data, i) ==
    LET best     == DenseBest(data, i)
        rawClass == RawClassOf(best.maxClass)
        cx == Read(data, 0 * numAnchors + i)
        cy == Read(data, 1 * numAnchors + i)
        w  == Read(data, 2 * numAnchors + i)
        h  == Read(data, 3 * numAnchors + i)
        x  == Sub(cx, Half(w))
        y  == Sub(cy, Half(h))
    IN  [ label     |-> DisplayLabel(rawClass),
          score     |-> best.maxScore,
          x |-> x, y |-> y, w |-> w, h |-> h,
          proximity |-> getProximity_mobile(Mul(w, h), FRAME_SIZE * FRAME_SIZE),
          direction |-> getDirection_mobile(cx, FRAME_SIZE),
          rawClass  |-> rawClass ]

DecodeDense(data) ==
    LET kept  == {i \in 0..(numAnchors - 1) : DenseKeeps(data, i)}
        order == Ascending(kept)
    IN  [k \in 1..Len(order) |-> DenseItem(data, order[k])]

\* the layout is chosen by the element count alone
MobileDecode(data) ==
    IF data.len < LAYOUT_THRESHOLD THEN DecodeEndToEnd(data) ELSE DecodeDense(data)

\* nmsResults.slice(0, MAX_DETECTIONS)
Slice(s, n) == SubSeq(s, 1, IF Len(s) < n THEN Len(s) ELSE n)

\* what the frame processor publishes for one admitted frame
MobilePublished(results) ==
    LET nmsResults == applyNMS_mobile(results)
    IN  IF Len(nmsResults) > 0 THEN Slice(nmsResults, MAX_DETECTIONS) ELSE <<>>

\* the body run by runAtTargetFps for one admitted frame whose inference
\* output is data; updateDetectionsJS sets the React state
ProcessFrame(data) ==
    \E results \in {MobileDecode(data)} :
        /\ mData' = data
        /\ mResults' = results
        /\ mDetections' = MobilePublished(results)
        /\ mProcessed' = IF mProcessed < 1 THEN mProcessed + 1 ELSE mProcessed

---------------------------------------------------------------------------
(* The web detector: parse, suppress, publish, alert *)

\* canvas.width x canvas.height, set from the video on every admitted frame
CanvasSize == [w |-> 1280, h |-> 640]

\* v * (canvas / 640)
Scale(v, canvas) == IF IsNaN(v) THEN NaN ELSE (v * canvas) \div 640

\* A two-dimensional array [rows, cols, cells]: cells gives the elements that
\* are not 0, by <<row, column>>.
\* prediction[r]?.[c]: undefined (NaN once used as a number) outside the array
CellAt(prediction, r, c) ==
    IF r < 0 \/ r >= prediction.rows \/ c < 0 \/ c >= prediction.cols THEN NaN
    ELSE IF <<r, c>> \in DOMAIN prediction.cells THEN prediction.cells[<<r, c>>]
    ELSE 0

\* PRIORITY_CLASSES.includes(name ?? "") ? MIN_CONFIDENCE_PHONE_BOTTLE : MIN_CONFIDENCE
MinConfWeb(name) ==
    IF name \in PRIORITY_CLASSES THEN MIN_CONFIDENCE_PHONE_BOTTLE ELSE MIN_CONFIDENCE

\* the gate of the web parsers: `if (score < minConf) return` and
\* `p.score >= minConf` keep the same scores
PassesWeb(score, name) == ~Lt(score, MinConfWeb(name))

\* DISPLAY_LABELS[names[cls]] ?? names[cls] ?? String(cls)
WebLabel(names, cls) ==
    LET n == NameAt(names, cls)
    IN  IF n = Undefined THEN String(cls) ELSE DisplayLabel(n)

WebItem(names, cls, score, cx, cy, w, h, canvasW, canvasH) ==
    LET x   == Scale(Sub(cx, Half(w)), canvasW)
        y   == Scale(Sub(cy, Half(h)), canvasH)
        wSc == Scale(w, canvasW)
        hSc == Scale(h, canvasH)
    IN  [ label     |-> WebLabel(names, cls),
          score     |-> score,
          x |-> x, y |-> y, w |-> wSc, h |-> hSc,
          proximity |-> getProximity(Mul(wSc, hSc), canvasW * canvasH),
          direction |-> getDirection(Add(x, Half(wSc)), canvasW),
          rawClass  |-> LET n == NameAt(names, cls)
                        IN IF n = Undefined THEN String(cls) ELSE n ]

\* the 300 x 6 branch
YoloRowKeeps(prediction, names, r) ==
    PassesWeb(CellAt(prediction, r, 4),
              NameAt(names, MathRound(CellAt(prediction, r, 5))))

YoloRowItem(prediction, names, r, canvasW, canvasH) ==
    WebItem(names, MathRound(CellAt(prediction, r, 5)), CellAt(prediction, r, 4),
            CellAt(prediction, r, 0), CellAt(prediction, r, 1),
            CellAt(prediction, r, 2), CellAt(prediction, r, 3), canvasW, canvasH)

\* the 8400-anchor branch: prediction[4 + c]?.[i] ?? 0
RECURSIVE WebArgMax(_, _, _, _, _, _)
WebArgMax(prediction, numClasses, i, c, maxScore, maxClass) ==
    IF c >= numClasses THEN [maxScore |-> maxScore, maxClass |-> maxClass]
    ELSE LET cell == CellAt(prediction, 4 + c, i)
             sc   == IF IsNaN(cell) THEN 0 ELSE cell
         IN  IF Gt(sc, maxScore)
             THEN WebArgMax(prediction, numClasses, i, c + 1, sc, c)
             ELSE WebArgMax(prediction, numClasses, i, c + 1, maxScore, maxClass)

YoloAnchorKeeps(prediction, names, i) ==
    \E best \in {WebArgMax(prediction, Len(names), i, 0, 0, -1)} :
        PassesWeb(best.maxScore, NameAt(names, best.maxClass))

YoloAnchorItem(prediction, names, i, canvasW, canvasH) ==
    LET best == WebArgMax(prediction, Len(names), i, 0, 0, -1)
    IN  WebItem(names, best.maxClass, best.maxScore,
                CellAt(prediction, 0, i), CellAt(prediction, 1, i),
                CellAt(prediction, 2, i), CellAt(prediction, 3, i), canvasW, canvasH)

parseYoloToDetections(prediction, canvasW, canvasH, names) ==
    IF prediction.rows = 300 /\ prediction.cols = 6
    THEN LET order == Ascending({r \in 0..299 : YoloRowKeeps(prediction, names, r)})
         IN  [k \in 1..Len(order) |->
                 YoloRowItem(prediction, names, order[k], canvasW, canvasH)]
    ELSE IF prediction.cols = 8400
    THEN LET order == Ascending({i \in 0..8399 : YoloAnchorKeeps(prediction, names, i)})
         IN  [k \in 1..Len(order) |->
                 YoloAnchorItem(prediction, names, order[k], canvasW, canvasH)]
    ELSE <<>>

\* a COCO-SSD prediction is [bbox |-> <<x, y, w, h>>, class, score]
CocoItem(p, canvasW, canvasH) ==
    [ label     |-> DisplayLabel(p.class),
      score     |-> p.score,
      x |-> p.bbox[1], y |-> p.bbox[2], w |-> p.bbox[3], h |-> p.bbox[4],
      proximity |-> getProximity(Mul(p.bbox[3], p.bbox[4]), canvasW * canvasH),
      direction |-> getDirection(Add(p.bbox[1], Half(p.bbox[3])), canvasW),
      rawClass  |-> p.class ]

parseCocoToDetections(predictions, canvasW, canvasH) ==
    LET kept == SelectSeq(predictions, LAMBDA p : PassesWeb(p.score, p.class))
    IN  [k \in 1..Len(kept) |-> CocoItem(kept[k], canvasW, canvasH)]

\* detect(): the output tensor with a detection shape.  A tensor is
\* [shape, cells]; cells of a [1, R, C] or [R, C] tensor are keyed by <<r, c>>.
Transposed(cells) ==
    [rc \in {<<k[2], k[1]>> : k \in DOMAIN cells} |-> cells[<<rc[2], rc[1]>>]]

\* `batch` of one tensor: null unless the array is [300, 6] or has three dimensions
BatchOf(ten) ==
    IF Len(ten.shape) = 2 /\ ten.shape[1] = 300 /\ ten.shape[2] = 6
    THEN [null |-> FALSE, rows |-> 300, cols |-> 6, cells |-> ten.cells]
    ELSE IF Len(ten.shape) = 3 /\ ten.shape[1] > 0 /\ ten.shape[2] > 0
    THEN [null |-> FALSE, rows |-> ten.shape[2], cols |-> ten.shape[3], cells |-> ten.cells]
    ELSE [null |-> TRUE]

RECURSIVE SelectPrediction(_)
SelectPrediction(outputs) ==
    IF outputs = <<>> THEN [null |-> TRUE]
    ELSE LET batch == BatchOf(Head(outputs))
         IN  IF batch.null THEN SelectPrediction(Tail(outputs))
             ELSE IF batch.rows = 300 /\ batch.cols = 6 THEN batch
             ELSE IF batch.rows = 6 /\ batch.cols = 300
                  THEN [null |-> FALSE, rows |-> 300, cols |-> 6,
                        cells |-> Transposed(batch.cells)]
             ELSE IF batch.rows = 84 /\ batch.cols = 8400 THEN batch
             ELSE SelectPrediction(Tail(outputs))

\* buildVoiceAlert(detections, maxItems = 4)
VOICE_ONLY_CLOSE_AND_AHEAD == TRUE
MaxAnnounced == 4

\* a variant that announces whatever is close, ahead or not
AlertCandidates_close(detections) ==
    SelectSeq(detections, LAMBDA d : d.proximity = "close")

AlertCandidates(detections) ==
    IF VOICE_ONLY_CLOSE_AND_AHEAD
    THEN SelectSeq(detections, LAMBDA d : d.proximity = "close" /\ d.direction = "center")
    ELSE SelectSeq(detections, LAMBDA d : d.proximity = "close" \/ d.proximity = "medium")

\* parts.join(". ")
RECURSIVE JoinParts(_)
JoinParts(parts) ==
    IF parts = <<>> THEN ""
    ELSE IF Len(parts) = 1 THEN parts[1]
    ELSE parts[1] \o ". " \o JoinParts(Tail(parts))

buildVoiceAlert(detections) ==
    LET toAnnounce == Slice(AlertCandidates(detections), MaxAnnounced)
        parts      == [k \in 1..Len(toAnnounce) |-> toAnnounce[k].label \o " ahead"]
    IN  IF Len(toAnnounce) = 0 THEN ""
        ELSE "Caution. " \o JoinParts(parts) \o "."

\* now - lastVoiceTimeRef.current >= VOICE_ALERT_INTERVAL_MS
\* variant: the comparison made exclusive
AlertDue_strict(now, lastVoice) == now - lastVoice > VOICE_ALERT_INTERVAL_MS

\* variant: due whenever the clock has not gone back
AlertDue_always(now, lastVoice) == now - lastVoice >= 0

AlertDue(now, lastVoice) == now - lastVoice >= VOICE_ALERT_INTERVAL_MS

\* now - lastDetectTimeRef.current < DETECT_INTERVAL_MS
\* variant: half the interval
TooSoon_half(now, lastDetect) == 2 * (now - lastDetect) < DETECT_INTERVAL_MS

TooSoon(now, lastDetect) == now - lastDetect < DETECT_INTERVAL_MS

\* the alert check of detect(): when due, lastVoiceTimeRef.current = now is
\* assigned before the message is built and handed to speakAlert, whatever
\* speakAlert then does (`uttered`)
\* variant: the timestamp taken only when the utterance was made
VoiceTimeAfter_uttered(due, now, lastVoice, uttered) ==
    IF due /\ uttered THEN now ELSE lastVoice

\* variant: the timestamp taken by every finished frame
VoiceTimeAfter_always(due, now, lastVoice, uttered) == now

VoiceTimeAfter(due, now, lastVoice, uttered) == IF due THEN now ELSE lastVoice

\* the detections one resolved inference yields: parseCocoToDetections, or
\* the selected output tensor through parseYoloToDetections ([] when none)
WebRaw(type, input) ==
    IF type = "coco"
    THEN parseCocoToDetections(input, CanvasSize.w, CanvasSize.h)
    ELSE LET prediction == SelectPrediction(input)
         IN  IF prediction.null THEN <<>>
             ELSE parseYoloToDetections(prediction, CanvasSize.w, CanvasSize.h,
                                        CLASS_NAMES)

\* drawDetections draws items.slice(0, MAX_DETECTIONS_DRAWN)
Drawn(its) == Slice(its, MAX_DETECTIONS_DRAWN)

RemoveAt(s, k) == SubSeq(s, 1, k - 1) \o SubSeq(s, k + 1, Len(s))

\* detect(), from its entry to the await of the inference: it schedules the
\* next animation frame, returns early while the video is not ready or the
\* last admitted frame is less than DETECT_INTERVAL_MS old, and otherwise
\* starts an inference whose result is `input`
DetectBody(now, ready, input) ==
    IF ~ready \/ TooSoon(now, lastDetectTimeRef)
    THEN UNCHANGED <<lastDetectTimeRef, inflight>>
    ELSE /\ lastDetectTimeRef' = now
         /\ inflight' = Append(inflight,
                               [now |-> now, type |-> detector, input |-> input])

\* detect(), from the await on, for the suspended call k whose inference
\* resolved: parse, suppress, publish, draw, then the alert check.
\* speakAlert either hands the utterance to window.speechSynthesis (uttered)
\* or does not: it returns when there is no speechSynthesis, and an
\* exception of the speech engine ends in the catch block of detect().
Complete(k) ==
    /\ k \in DOMAIN inflight
    /\ \E call \in {inflight[k]} :
       \E raw \in {WebRaw(call.type, call.input)} :
       \E its \in {applyNMS(raw)} :
       \E due \in {AlertDue(call.now, lastVoiceTimeRef)} :
       \E msg \in {buildVoiceAlert(its)} :
       \E uttered \in BOOLEAN :
           /\ detectionsRef' = its
           /\ lastVoiceTimeRef' = VoiceTimeAfter(due, call.now, lastVoiceTimeRef, uttered)
           /\ spoken' = IF due /\ msg # ""
                        THEN Append(spoken, [t |-> call.now, at |-> clock, msg |-> msg,
                                             uttered |-> uttered])
                        ELSE spoken
           /\ lastEval' = [ kind |-> "done", now |-> call.now, type |-> call.type,
                            input |-> call.input, raw |-> raw, items |-> its,
                            drawn |-> Drawn(its), due |-> due, msg |-> msg,
                            voiceBefore |-> lastVoiceTimeRef ]
    /\ inflight' = RemoveAt(inflight, k)
    /\ UNCHANGED <<clock, detector, lastDetectTimeRef, rafActive>>

\* the inference of call k rejects: the catch block logs and returns
Fail(k) ==
    /\ k \in DOMAIN inflight
    /\ lastEval' = [kind |-> "failed", now |-> inflight[k].now]
    /\ inflight' = RemoveAt(inflight, k)
    /\ UNCHANGED <<clock, detector, lastDetectTimeRef, lastVoiceTimeRef,
                   detectionsRef, spoken, rafActive>>

---------------------------------------------------------------------------
(* Suppression on its own: both suppressors applied to bounded candidate    *)
(* lists, once and then again to their own output.                          *)

MaxItems == 3

NoRun == [ran |-> FALSE, out |-> <<>>]
Ran(out) == [ran |-> TRUE, out |-> out]

\* A candidate as both decoders build it.  rawClass (the vocabulary name the
\* label was resolved from) is carried for the statements about model
\* classes; no operation of the pipeline reads it.
Item(rawClass, score, box) ==
    [ label     |-> DisplayLabel(rawClass),
      score     |-> score,
      x |-> box[1], y |-> box[2], w |-> box[3], h |-> box[4],
      proximity |-> getProximity_mobile(Mul(box[3], box[4]), FRAME_SIZE * FRAME_SIZE),
      direction |-> getDirection_mobile(Add(box[1], Half(box[3])), FRAME_SIZE),
      rawClass  |-> rawClass ]

PoolClasses == {"person", "handbag", "suitcase"}
PoolScores  == {500, 900}
\* (0,0,100,100) and (0,0,100,90) overlap with IoU 0.9; the third is disjoint
PoolBoxes   == {<<0, 0, 100, 100>>, <<0, 0, 100, 90>>, <<200, 200, 100, 100>>}
Pool == {Item(c, s, b) : c \in PoolClasses, s \in PoolScores, b \in PoolBoxes}

\* candidates of one label at the edges of boxIoU: boxes without area (a
\* point, a vertical segment inside the fourth box), two disjoint boxes
EdgePool ==
    { Item("person", 900, <<50, 50, 0, 0>>),
      Item("person", 500, <<50, 0, 0, 100>>),
      Item("person", 500, <<300, 300, 100, 100>>),
      Item("person", 900, <<0, 0, 100, 100>>) }

SeqsUpTo(S, n) == UNION {[1..k -> S] : k \in 0..n}

\* The variables of the other machines, at rest.
EmptyBuffer == [len |-> 0, cells |-> <<>>]
NoEval == [kind |-> "none"]

MobileIdle ==
    /\ mData = EmptyBuffer
    /\ mResults = <<>> /\ mDetections = <<>>
    /\ mProcessed = 0 /\ mClock = 0 /\ mLastRun = 0
    /\ mSpoken = <<>> /\ mMounted = FALSE

WebIdle ==
    /\ clock = 0 /\ detector = "coco"
    /\ lastDetectTimeRef = 0 /\ lastVoiceTimeRef = 0
    /\ detectionsRef = <<>> /\ inflight = <<>> /\ spoken = <<>>
    /\ rafActive = FALSE /\ lastEval = NoEval

NMSIdle ==
    /\ items = <<>>
    /\ webOut = NoRun /\ mobOut = NoRun
    /\ webTwice = NoRun /\ mobTwice = NoRun

NotRun == [ran |-> FALSE]

PureIdle == sample = [kind |-> "none"] /\ outcome = NotRun

GraphIdle == graphLoop = [at |-> "idle", last |-> "none"]

NMSInit ==
    /\ items \in SeqsUpTo(Pool, MaxItems) \cup SeqsUpTo(EdgePool, MaxItems)
    /\ webOut = NoRun /\ mobOut = NoRun
    /\ webTwice = NoRun /\ mobTwice = NoRun
    /\ MobileIdle /\ WebIdle /\ PureIdle /\ GraphIdle /\ frames = 0

\* both applyNMS implementations on the list
Suppress ==
    /\ ~webOut.ran
    /\ webOut' = Ran(applyNMS(items))
    /\ mobOut' = Ran(applyNMS_mobile(items))
    /\ UNCHANGED <<items, webTwice, mobTwice>>
    /\ UNCHANGED <<graphLoop, pureVars, mobileVars, webVars, frames>>

\* each implementation again, on its own output
SuppressAgain ==
    /\ webOut.ran /\ ~webTwice.ran
    /\ webTwice' = Ran(applyNMS(webOut.out))
    /\ mobTwice' = Ran(applyNMS_mobile(mobOut.out))
    /\ UNCHANGED <<items, webOut, mobOut>>
    /\ UNCHANGED <<graphLoop, pureVars, mobileVars, webVars, frames>>

NMSNext == Suppress \/ SuppressAgain

NMSSpec == NMSInit /\ [][NMSNext]_vars

---------------------------------------------------------------------------
(* Raw outputs handed to the decoders *)

MaxRows == 2

\* a buffer holding the given values from index 0 on, len elements long
BufferOf(values, len) ==
    [len |-> len, cells |-> [i \in 0..(Len(values) - 1) |-> values[i + 1]]]

RECURSIVE Flatten(_)
Flatten(rows) == IF rows = <<>> THEN <<>> ELSE Head(rows) \o Flatten(Tail(rows))

\* rows of an end-to-end output: <<cx, cy, w, h, score, class>>
RowPool ==
    { <<320, 320, 100, 100,  81,   0>>,    \* person, just above 0.08
      <<320, 320, 100, 100,  80,   0>>,    \* person, at 0.08
      <<320, 320, 100, 100,  50, 390>>,    \* bottle, at 0.05
      <<320, 320, 100, 100,  51, 390>>,    \* bottle, just above 0.05
      <<100, 100, 100, 100,  60, 670>>,    \* cell phone, between the thresholds
      <<100, 100, 100, 100,  60,   0>>,    \* person, between the thresholds
      <<320, 320, 400, 400, 900, 260>>,    \* handbag, close and ahead
      <<320, 320, 400, 400, 800, 280>>,    \* suitcase, same box
      <<320, 320, 400, 400, 900, 800>>,    \* class 80: outside the vocabulary
      <<320, 320, 400, 390, 700, 385>> }   \* class 38.5: rounds to bottle

\* values left over after the last complete row
TailPool ==
    { <<320, 320, 100, 100, 900>>,         \* five values: a score, no class
      <<320, 320, 100, 100>>,
      <<320>> }

EndToEndFrames ==
    {BufferOf(Flatten(rows), 6 * Len(rows)) : rows \in SeqsUpTo(RowPool, MaxRows)}

PartialFrames ==
    {BufferOf(Flatten(rows) \o tail, 6 * Len(rows) + Len(tail)) :
        rows \in SeqsUpTo(RowPool, 1), tail \in TailPool}

\* one passing row followed by zeros, at element counts around the layout threshold
BoundaryFrames ==
    {BufferOf(<<320, 320, 400, 400, 900, 0>>, n) :
        n \in {LAYOUT_THRESHOLD - 2, LAYOUT_THRESHOLD - 1, LAYOUT_THRESHOLD}}

\* a dense output: entries <<row, anchor, value>>, every other element 0
DenseBuffer(entries, len) ==
    [len |-> len,
     cells |-> [idx \in {e[1] * numAnchors + e[2] : e \in entries} |->
                  (CHOOSE e \in entries : e[1] * numAnchors + e[2] = idx)[3]]]

\* one anchor with box (cx, cy, w, h) and one class score
OneAnchor(i, box, c, score) ==
    { <<0, i, box[1]>>, <<1, i, box[2]>>, <<2, i, box[3]>>, <<3, i, box[4]>>,
      <<4 + c, i, score>> }

\* three anchors of a dense output: anchor 3 with its highest score twice
\* (classes 0 and 56) above a lower one, anchor 4 with its highest score at
\* the later of two classes, anchor 8 with no positive score
ArgMaxScene ==
    OneAnchor(3, <<100, 100, 40, 40>>, 0, 600)
        \cup {<<4 + 56, 3, 600>>, <<4 + 39, 3, 300>>}
        \cup OneAnchor(4, <<320, 320, 400, 400>>, 2, 300) \cup {<<4 + 60, 4, 700>>}
        \cup OneAnchor(8, <<500, 500, 100, 100>>, 5, -100)

DenseFrames ==
    { \* (4 + 80) x 8400: one bottle anchor, nothing else
      DenseBuffer(OneAnchor(17, <<320, 500, 80, 200>>, 39, 500), (4 + numClass) * numAnchors),
      DenseBuffer(ArgMaxScene, (4 + numClass) * numAnchors),
      \* 5 x 8400: the box rows and a single class row
      DenseBuffer(OneAnchor(5, <<320, 320, 400, 400>>, 0, 900), 5 * numAnchors) }

\* more survivors than the output cap: MAX_DETECTIONS small persons side by
\* side with distinct scores, and before them a chair, close and ahead, with
\* the lowest score of all
CrowdRows ==
    [k \in 1..(MAX_DETECTIONS + 1) |->
        IF k = 1 THEN <<320, 320, 400, 400, 100, 560>>
        ELSE <<10 * k, 10, 8, 8, 200 + (((k - 2) * 7) % MAX_DETECTIONS) * 10, 0>>]

CrowdFrames == {BufferOf(Flatten(CrowdRows), 1800)}

MobileFrames ==
    EndToEndFrames \cup PartialFrames \cup BoundaryFrames \cup DenseFrames
    \cup CrowdFrames

\* an output tensor whose first rows are the given end-to-end rows
TensorOfRows(shape, rows) ==
    [shape |-> shape,
     cells |-> [rc \in (0..(Len(rows) - 1)) \X (0..5) |-> rows[rc[1] + 1][rc[2] + 1]]]

\* the same rows in a [1, 6, 300] tensor
TensorOfColumns(rows) ==
    [shape |-> <<1, 6, 300>>,
     cells |-> [cr \in (0..5) \X (0..(Len(rows) - 1)) |-> rows[cr[2] + 1][cr[1] + 1]]]

\* a tensor with the given <<row, anchor, value>> entries
TensorOfEntries(shape, entries) ==
    [shape |-> shape,
     cells |-> [ra \in {<<e[1], e[2]>> : e \in entries} |->
                  (CHOOSE e \in entries : <<e[1], e[2]>> = ra)[3]]]

YoloInputs ==
    {<<TensorOfRows(<<1, 300, 6>>, rows)>> : rows \in SeqsUpTo(RowPool, MaxRows)}
    \cup {<<TensorOfRows(<<300, 6>>, rows)>> : rows \in SeqsUpTo(RowPool, 1)}
    \cup {<<TensorOfColumns(rows)>> : rows \in SeqsUpTo(RowPool, 1)}
    \* two rows only, as [1, 2, 6]
    \cup {<<TensorOfRows(<<1, Len(rows), 6>>, rows)>> : rows \in [1..2 -> RowPool]}
    \* a first output of another shape, then the detections
    \cup {<<TensorOfRows(<<1, 300>>, <<>>), TensorOfRows(<<1, 300, 6>>, <<r>>)>> :
             r \in RowPool}
    \cup {<<TensorOfRows(<<1, 300, 6>>, CrowdRows)>>}
    \cup { \* [1, 84, 8400]: one bottle anchor
           <<TensorOfEntries(<<1, 4 + numClass, numAnchors>>,
                             OneAnchor(17, <<320, 500, 80, 200>>, 39, 500))>>,
           <<TensorOfEntries(<<1, 4 + numClass, numAnchors>>, ArgMaxScene)>>,
           \* [1, 5, 8400]: the box rows and a single class row
           <<TensorOfEntries(<<1, 5, numAnchors>>,
                             OneAnchor(5, <<320, 320, 400, 400>>, 0, 900))>>,
           \* no output tensor at all
           <<>> }

\* COCO-SSD predictions, boxes in canvas pixels
CocoPool ==
    { [bbox |-> <<440, 120, 400, 400>>, class |-> "person",   score |-> 900],
      [bbox |-> <<440, 120, 400, 400>>, class |-> "handbag",  score |-> 800],
      [bbox |-> <<440, 120, 400, 400>>, class |-> "suitcase", score |-> 700],
      [bbox |-> <<0, 0, 100, 100>>,     class |-> "person",   score |-> 80],
      [bbox |-> <<0, 0, 100, 100>>,     class |-> "person",   score |-> 79],
      [bbox |-> <<0, 0, 100, 100>>,     class |-> "bottle",   score |-> 50],
      [bbox |-> <<0, 0, 100, 100>>,     class |-> "bottle",   score |-> 49] }

CocoInputs == SeqsUpTo(CocoPool, MaxRows)

---------------------------------------------------------------------------
(* DecodeSpec: one frame through the mobile frame processor, or one         *)
(* resolved inference through the web detect(), for every raw output above  *)

EvalAt == [now |-> 4000]

DecodeInit ==
    /\ PureIdle /\ NMSIdle /\ GraphIdle /\ frames = 0
    /\ \/ /\ mData \in MobileFrames
          /\ mResults = <<>> /\ mDetections = <<>>
          /\ mProcessed = 0 /\ mClock = 0 /\ mLastRun = 0
          /\ mSpoken = <<>> /\ mMounted = TRUE
          /\ WebIdle
       \/ /\ MobileIdle
          /\ clock = EvalAt.now /\ lastDetectTimeRef = EvalAt.now
          /\ lastVoiceTimeRef = 0
          /\ detectionsRef = <<>> /\ spoken = <<>>
          /\ rafActive = TRUE /\ lastEval = NoEval
          /\ \/ /\ detector = "coco"
                /\ \E input \in CocoInputs :
                      inflight = <<[now |-> EvalAt.now, type |-> "coco", input |-> input]>>
             \/ /\ detector = "yolo"
                /\ \E input \in YoloInputs :
                      inflight = <<[now |-> EvalAt.now, type |-> "yolo", input |-> input]>>

DecodeFrame ==
    /\ mMounted /\ mProcessed = 0
    /\ ProcessFrame(mData)
    /\ UNCHANGED <<mClock, mLastRun, mSpoken, mMounted>>
    /\ UNCHANGED <<graphLoop, pureVars, nmsVars, webVars, frames>>

DecodeCall == Complete(1) /\ UNCHANGED <<graphLoop, pureVars, nmsVars, mobileVars, frames>>

DecodeNext == DecodeFrame \/ DecodeCall

DecodeSpec == DecodeInit /\ [][DecodeNext]_vars

---------------------------------------------------------------------------
(* Spec: the running pipeline over time, on the web page or on the phone *)

MaxClock    == 9000
MaxInFlight == 2
MaxFrames   == 3

\* time between two animation frames, or two camera frames
WebSteps    == {100, 1000, 4000}
MobileSteps == {50, 100, 2000}

AlertRow == <<320, 320, 400, 400, 900, 0>>
FarRow   == <<100, 100, 60, 60, 900, 0>>

\* what the model answers for the frame of one call
WebInputs(type) ==
    IF type = "coco"
    THEN { <<>>,
           <<[bbox |-> <<440, 120, 400, 400>>, class |-> "person", score |-> 900]>>,
           <<[bbox |-> <<0, 0, 100, 100>>, class |-> "person", score |-> 900]>> }
    ELSE { <<TensorOfRows(<<1, 300, 6>>, <<AlertRow>>)>>,
           <<TensorOfRows(<<1, 2, 6>>, <<AlertRow, FarRow>>)>> }

TimedFrames ==
    {BufferOf(<<>>, 1800), BufferOf(AlertRow, 1800), BufferOf(FarRow, 1800),
     BufferOf(AlertRow \o FarRow, 12)}

WebStart ==
    /\ clock = 0 /\ detector = "coco"
    /\ lastDetectTimeRef = 0 /\ lastVoiceTimeRef = 0
    /\ detectionsRef = <<>> /\ inflight = <<>> /\ spoken = <<>>
    /\ rafActive = TRUE /\ lastEval = NoEval

MobileStart ==
    /\ mData = EmptyBuffer
    /\ mResults = <<>> /\ mDetections = <<>>
    /\ mProcessed = 0 /\ mClock = 0 /\ mLastRun = 0
    /\ mSpoken = <<>> /\ mMounted = TRUE

\* the first detector of the page (src/unnamed/part_005), its model loaded:
\* the effect has called detect()
GraphStart == graphLoop = [at |-> "scheduled", last |-> "none"]

Init ==
    /\ PureIdle /\ NMSIdle /\ frames = 0
    /\ \/ WebStart /\ MobileIdle /\ GraphIdle
       \/ MobileStart /\ WebIdle /\ GraphIdle
       \/ GraphStart /\ WebIdle /\ MobileIdle

\* one animation frame: detect() runs dt after the previous one
Detect ==
    /\ rafActive
    /\ frames < MaxFrames /\ frames' = frames + 1
    /\ Len(inflight) < MaxInFlight
    /\ \E dt \in WebSteps :
          /\ clock + dt <= MaxClock
          /\ clock' = clock + dt
          /\ \E ready \in BOOLEAN : \E input \in WebInputs(detector) :
                DetectBody(clock + dt, ready, input)
    /\ UNCHANGED <<detector, lastVoiceTimeRef, detectionsRef, spoken, rafActive, lastEval>>
    /\ UNCHANGED <<graphLoop, pureVars, nmsVars, mobileVars>>

Resolve == \E k \in DOMAIN inflight : Complete(k) /\ UNCHANGED <<graphLoop, pureVars, nmsVars, mobileVars, frames>>

Reject == \E k \in DOMAIN inflight : Fail(k) /\ UNCHANGED <<graphLoop, pureVars, nmsVars, mobileVars, frames>>

\* the YOLO graph model finishes loading: setDetector({ type: "yolo" })
YoloLoaded ==
    /\ rafActive /\ detector = "coco"
    /\ detector' = "yolo"
    /\ UNCHANGED <<clock, lastDetectTimeRef, lastVoiceTimeRef, detectionsRef,
                   inflight, spoken, rafActive, lastEval>>
    /\ UNCHANGED <<graphLoop, pureVars, nmsVars, mobileVars, frames>>

\* the component unmounts: cancelAnimationFrame
WebUnmount ==
    /\ rafActive
    /\ rafActive' = FALSE
    /\ UNCHANGED <<clock, detector, lastDetectTimeRef, lastVoiceTimeRef,
                   detectionsRef, inflight, spoken, lastEval>>
    /\ UNCHANGED <<graphLoop, pureVars, nmsVars, mobileVars, frames>>

\* the phone's buildVoiceAlert(detections, maxItems = 4); its items carry
\* the display label as "class", the label field of this model
buildVoiceAlert_mobile(detections) ==
    LET candidates == IF VOICE_ONLY_CLOSE_AND_AHEAD
                      THEN SelectSeq(detections,
                             LAMBDA d : d.proximity = "close" /\ d.direction = "center")
                      ELSE SelectSeq(detections,
                             LAMBDA d : d.proximity = "close" \/ d.proximity = "medium")
        toAnnounce == Slice(candidates, MaxAnnounced)
        parts      == [k \in 1..Len(toAnnounce) |-> toAnnounce[k].label \o " ahead"]
    IN  IF Len(toAnnounce) = 0 THEN ""
        ELSE "Caution. " \o JoinParts(parts) \o "."

\* the next firing of setInterval(..., VOICE_ALERT_INTERVAL_MS)
NextTick(t) == ((t \div VOICE_ALERT_INTERVAL_MS) + 1) * VOICE_ALERT_INTERVAL_MS

\* runAtTargetFps(10, ...): the body runs when 1000 / 10 ms have passed
TargetFps == 10
Admitted(now, lastRun) == now - lastRun >= 1000 \div TargetFps

\* one camera frame reaches the frame processor
Frame ==
    /\ mMounted
    /\ frames < MaxFrames /\ frames' = frames + 1
    /\ \E dt \in MobileSteps :
          /\ mClock + dt < NextTick(mClock)
          /\ mClock + dt <= MaxClock
          /\ mClock' = mClock + dt
          /\ IF Admitted(mClock + dt, mLastRun)
             THEN /\ mLastRun' = mClock + dt
                  /\ \E data \in TimedFrames : ProcessFrame(data)
             ELSE UNCHANGED <<mLastRun, mData, mResults, mDetections, mProcessed>>
    /\ UNCHANGED <<mSpoken, mMounted>>
    /\ UNCHANGED <<graphLoop, pureVars, nmsVars, webVars>>

\* the interval callback: speak the alert built from the published list
AlertTick ==
    /\ mMounted
    /\ NextTick(mClock) <= MaxClock
    /\ mClock' = NextTick(mClock)
    /\ \E msg \in {buildVoiceAlert_mobile(mDetections)} :
       \E uttered \in BOOLEAN :
          mSpoken' = IF Len(mDetections) # 0 /\ msg # ""
                     THEN Append(mSpoken, [t |-> NextTick(mClock), msg |-> msg,
                                           uttered |-> uttered])
                     ELSE mSpoken
    /\ UNCHANGED <<mData, mResults, mDetections, mProcessed, mLastRun, mMounted>>
    /\ UNCHANGED <<graphLoop, pureVars, nmsVars, webVars, frames>>

MobileUnmount ==
    /\ mMounted
    /\ mMounted' = FALSE
    /\ UNCHANGED <<mData, mResults, mDetections, mProcessed, mClock, mLastRun, mSpoken>>
    /\ UNCHANGED <<graphLoop, pureVars, nmsVars, webVars, frames>>

\* detect() of src/unnamed/part_005, from its entry to the await of
\* model.executeAsync.  While the refs or the video are not ready it
\* requests the next animation frame and returns.  Otherwise it preprocesses
\* the frame (tf.browser.fromPixels, resizeBilinear, cast, expandDims, div)
\* before its try block: an exception there rejects the call, and nothing
\* has requested another animation frame.
GraphDetect ==
    /\ graphLoop.at = "scheduled"
    /\ \E ready \in BOOLEAN, preprocessed \in BOOLEAN :
          graphLoop' =
             IF ~ready THEN [at |-> "scheduled", last |-> "skipped"]
             ELSE IF ~preprocessed THEN [at |-> "stopped", last |-> "thrown"]
             ELSE [at |-> "awaiting", last |-> graphLoop.last]
    /\ UNCHANGED <<pureVars, nmsVars, mobileVars, webVars, frames>>

\* the rest of that detect(): inference, decode and drawing run inside the
\* try block, whose catch logs; then it requests the next animation frame
GraphSettle ==
    /\ graphLoop.at = "awaiting"
    /\ \E fault \in BOOLEAN :
          graphLoop' = [at |-> "scheduled", last |-> IF fault THEN "caught" ELSE "done"]
    /\ UNCHANGED <<pureVars, nmsVars, mobileVars, webVars, frames>>

Next ==
    \/ GraphDetect
    \/ GraphSettle
    \/ Detect
    \/ Resolve
    \/ Reject
    \/ YoloLoaded
    \/ WebUnmount
    \/ Frame
    \/ AlertTick
    \/ MobileUnmount

Spec == Init /\ [][Next]_vars

---------------------------------------------------------------------------
(* The classifiers and the alert builders on their own (PureSpec) *)

MaxList == 5

\* boxes with area ratios at and around 0.025, 0.035 and 0.12 and centres at
\* and around the thirds: in the phone's 640 x 640 frame (whose thirds are
\* not whole pixels) and in a 1920 x 1080 canvas (thirds at 640 and 1280)
BoxSamples ==
    { [kind |-> "box", cx |-> cx, cy |-> 320, w |-> 128, h |-> h,
       frameW |-> FRAME_SIZE, frameH |-> FRAME_SIZE] :
         cx \in {212, 214, 320, 426, 428},
         h  \in {80, 82, 96, 112, 114, 384, 386} }
    \cup
    { [kind |-> "box", cx |-> cx, cy |-> 540, w |-> 384, h |-> h,
       frameW |-> 1920, frameH |-> 1080] :
         cx \in {638, 640, 642, 1278, 1280, 1282},
         h  \in {134, 136, 188, 189, 190, 648, 650} }

\* detections as a decoder leaves them: three kinds that are close and
\* ahead, one close on the left, one ahead but far
AlertPool ==
    { Item("chair",  900, <<120, 120, 400, 400>>),
      Item("person", 800, <<120, 120, 400, 400>>),
      Item("bottle", 700, <<120, 120, 400, 400>>),
      Item("dog",    600, <<0, 120, 300, 400>>),
      Item("cup",    500, <<300, 300, 40, 40>>) }

ListSamples == {[kind |-> "list", list |-> l] : l \in SeqsUpTo(AlertPool, MaxList)}

PureInit ==
    /\ sample \in BoxSamples \cup ListSamples
    /\ outcome = NotRun
    /\ NMSIdle /\ MobileIdle /\ WebIdle /\ GraphIdle /\ frames = 0

\* every classifier on the box; the two decode branches of the phone on a
\* frame that holds the box as its only candidate
Classify ==
    /\ sample.kind = "box" /\ ~outcome.ran
    /\ LET bbox == <<Sub(sample.cx, Half(sample.w)), Sub(sample.cy, Half(sample.h)),
                     sample.w, sample.h>>
           box  == <<sample.cx, sample.cy, sample.w, sample.h>>
           area == Mul(sample.w, sample.h)
           frameArea == sample.frameW * sample.frameH
       IN  outcome' =
             [ ran |-> TRUE,
               getProximity        |-> getProximity(area, frameArea),
               getProximity_mobile |-> getProximity_mobile(area, frameArea),
               estimateProximity   |-> estimateProximity(bbox, sample.frameW, sample.frameH),
               getDirection        |-> getDirection(sample.cx, sample.frameW),
               getDirection_mobile |-> getDirection_mobile(sample.cx, sample.frameW),
               endToEnd |-> EndToEndItem(BufferOf(box \o <<900, 0>>, 6), 0),
               dense    |-> DenseItem(DenseBuffer(OneAnchor(0, box, 0, 900),
                                                  (4 + numClass) * numAnchors), 0) ]
    /\ UNCHANGED <<graphLoop, sample, nmsVars, mobileVars, webVars, frames>>

\* both buildVoiceAlert functions on the list
Announce ==
    /\ sample.kind = "list" /\ ~outcome.ran
    /\ outcome' = [ ran |-> TRUE,
                    web    |-> buildVoiceAlert(sample.list),
                    mobile |-> buildVoiceAlert_mobile(sample.list) ]
    /\ UNCHANGED <<graphLoop, sample, nmsVars, mobileVars, webVars, frames>>

PureNext == Classify \/ Announce

PureSpec == PureInit /\ [][PureNext]_vars

---------------------------------------------------------------------------
(* Properties of suppression (NMSSpec) *)

\* both suppressors have run on the list `items`
BothRan == webOut.ran /\ mobOut.ran

\* the list holds exactly two candidates
IsPair == Len(items) = 2

\* intersection over union of the pair, in hundredths, rounded down
PairIoU == LET r == boxIoU(items[1], items[2]) IN (r.num * 100) \div r.den

\* C4: two candidates of different model classes never suppress each other:
\* a pair of candidates whose vocabulary classes differ leaves suppression
\* with both members, on the page and on the phone, whatever their boxes.
C4_CrossClassIndependence ==
    (BothRan /\ IsPair /\ items[1].rawClass # items[2].rawClass)
        => (Len(webOut.out) = 2 /\ Len(mobOut.out) = 2)

\* C5: a pair of candidates of the same class whose IoU exceeds 0.45 leaves
\* suppression, on the page and on the phone, as exactly one survivor: a
\* member of the pair whose score is not below the other's.
C5_SameClassSuppression ==
    (BothRan /\ IsPair /\ items[1].rawClass = items[2].rawClass
             /\ LET r == boxIoU(items[1], items[2]) IN r.num * 100 > 45 * r.den)
        => \A out \in {webOut.out, mobOut.out} :
              /\ Len(out) = 1
              /\ out[1] \in {items[1], items[2]}
              /\ out[1].score >= items[1].score
              /\ out[1].score >= items[2].score

\* C5 witness: a same-class pair with IoU 0.9 and different scores went
\* through both suppressors and one candidate, the one scored 0.9, is left
C5_Witness ==
    /\ BothRan /\ IsPair
    /\ items[1].rawClass = items[2].rawClass
    /\ PairIoU = 90
    /\ items[1].score = 500 /\ items[2].score = 900
    /\ webOut.out = <<items[2]>> /\ mobOut.out = <<items[2]>>

\* C6: suppression is idempotent: a second pass over the output of the first
\* returns the same detections in the same order, on the page and the phone.
C6_Idempotence ==
    (webTwice.ran /\ mobTwice.ran)
        => (webTwice.out = webOut.out /\ mobTwice.out = mobOut.out)

---------------------------------------------------------------------------
(* Properties of decoding and publishing (DecodeSpec) *)

\* the phone's frame processor has run on the frame mData
FrameDone == mProcessed = 1

\* the page's detect() has finished one inference
CallDone == lastEval.kind = "done"

\* the threshold the statements give a class: 0.05 for cell phone and
\* bottle, 0.08 for every other
ThresholdOf(rawClass) == IF rawClass \in {"cell phone", "bottle"} THEN 50 ELSE 80

SortedByScore(s) == \A i, j \in DOMAIN s : i < j => s[i].score >= s[j].score

\* C3: in every decode path a candidate is kept only when its score is
\* strictly above the threshold of its class: no decoded candidate, on the
\* phone or on the page, has a score at or below that threshold.
C3_StrictGate ==
    /\ FrameDone => \A k \in DOMAIN mResults :
                       mResults[k].score > ThresholdOf(mResults[k].rawClass)
    /\ CallDone  => \A k \in DOMAIN lastEval.raw :
                       lastEval.raw[k].score > ThresholdOf(lastEval.raw[k].rawClass)

\* C7: the list handed to the consumers after a frame is sorted by
\* non-increasing score and holds at most 40 detections: the published list
\* of the phone, and on the page the list kept for the overlay and the one
\* the alert is built from (the alert is the alert of the 40 best survivors).
C7_SortedAndCapped ==
    /\ FrameDone => /\ SortedByScore(mDetections)
                    /\ Len(mDetections) <= 40
    /\ CallDone  => /\ SortedByScore(detectionsRef)
                    /\ Len(detectionsRef) <= 40
                    /\ Len(lastEval.drawn) <= 40
                    /\ lastEval.msg = buildVoiceAlert(SubSeq(lastEval.items, 1,
                           IF Len(lastEval.items) < 40 THEN Len(lastEval.items) ELSE 40))

\* C8: a raw output of fewer than 5000 elements is decoded as rows of six
\* values and yields at most floor(count / 6) candidates.
C8_EndToEndRowCount ==
    (FrameDone /\ mData.len < 5000) => Len(mResults) <= mData.len \div 6

\* C10: a raw output that matches neither layout (5000 or more elements but
\* not (4 + 80) x 8400 of them; on the page, no output tensor of a detection
\* shape) yields no candidate.
C10_MalformedYieldsNothing ==
    /\ (FrameDone /\ mData.len >= 5000 /\ mData.len # 84 * 8400) => mResults = <<>>
    /\ (CallDone /\ lastEval.type = "yolo" /\ SelectPrediction(lastEval.input).null)
          => lastEval.raw = <<>>

\* the rows of an end-to-end buffer of complete rows, and of the page's
\* selected 300 x 6 prediction
BufferRow(data, i) == [c \in 0..5 |-> Read(data, 6 * i + c)]
PredictionRow(prediction, r) == [c \in 0..5 |-> CellAt(prediction, r, c)]

\* the vocabulary class of a row: CLASS_NAMES[round(cls)], cls in tenths
RowClass(row) == NameAt(CLASS_NAMES, (row[5] + 5) \div 10)

RowThreshold(row) == ThresholdOf(RowClass(row))

\* candidate d is row `row` with its box moved from centre to corner and
\* scaled by sx / 640 and sy / 640, and its label that of the row's class
BoxOfRow(d, row, sx, sy) ==
    /\ 2 * 640 * d.x = (2 * row[0] - row[2]) * sx
    /\ 2 * 640 * d.y = (2 * row[1] - row[3]) * sy
    /\ 640 * d.w = row[2] * sx
    /\ 640 * d.h = row[3] * sy
    /\ d.score = row[4]

---------------------------------------------------------------------------
(* Properties of the alert schedule (Spec) *)

AlertWorthy(its) ==
    \E k \in DOMAIN its : its[k].proximity = "close" /\ its[k].direction = "center"

\* the evaluation that finished last spoke an alert
SpokeNow == \E k \in DOMAIN spoken : spoken[k].t = lastEval.now

C2_QuietEvaluationKeepsTimestamp ==
    (CallDone /\ lastEval.now - lastEval.voiceBefore >= 4000
              /\ ~AlertWorthy(lastEval.items))
        => lastVoiceTimeRef = lastEval.voiceBefore

---------------------------------------------------------------------------
(* Labels (DecodeSpec) *)

\* the labels of the vocabulary as shown to the user, and the fallback
VocabularyLabels ==
    {DisplayLabel(CLASS_NAMES[i]) : i \in DOMAIN CLASS_NAMES} \cup {"unknown"}

\* C11: every label a decode path produces, on the phone or on the page, is
\* the displayed label of a vocabulary class or "unknown": a class index
\* outside the vocabulary resolves to "unknown".
C11_LabelsFromVocabulary ==
    /\ FrameDone => \A k \in DOMAIN mResults :
                       mResults[k].label \in VocabularyLabels
    /\ CallDone  => \A k \in DOMAIN lastEval.raw :
                       lastEval.raw[k].label \in VocabularyLabels

---------------------------------------------------------------------------
(* Properties of the spatial classifiers and the alert text (PureSpec) *)

\* the classifiers have run on the box `sample`
Classified == sample.kind = "box" /\ outcome.ran

\* the tier the statements give an area ratio r = area / frameArea: close
\* when r > 0.12, medium when 0.035 < r <= 0.12, far otherwise
TierOf(area, frameArea) ==
    IF area * 1000 > 120 * frameArea THEN "close"
    ELSE IF area * 1000 > 35 * frameArea THEN "medium"
    ELSE "far"

\* C12: every proximity classifier applied to detections gives a box the
\* tier of its area ratio with the thresholds 0.12 and 0.035, a ratio of
\* exactly 0.12 being medium and one of exactly 0.035 far.
C12_ProximityTiers ==
    Classified =>
        \E tier \in {TierOf(sample.w * sample.h, sample.frameW * sample.frameH)} :
            /\ outcome.getProximity = tier
            /\ outcome.getProximity_mobile = tier
            /\ outcome.estimateProximity = tier
            /\ sample.frameW = FRAME_SIZE =>
                  /\ outcome.endToEnd.proximity = tier
                  /\ outcome.dense.proximity = tier

\* the band the statements give a centre: left of a third of the frame
\* width, right of two thirds, otherwise center (the thirds included)
BandOf(centerX, frameWidth) ==
    IF 3 * centerX < frameWidth THEN "left"
    ELSE IF 3 * centerX > 2 * frameWidth THEN "right"
    ELSE "center"

\* C13: the direction of a box is the band of its horizontal centre, a
\* centre exactly at one third or at two thirds of the width being center;
\* and the phone's two decode branches (centre recomputed as x + w/2, centre
\* read from the output) give the same box the same direction.
C13_DirectionBands ==
    Classified =>
        /\ outcome.getDirection = BandOf(sample.cx, sample.frameW)
        /\ outcome.getDirection_mobile = BandOf(sample.cx, sample.frameW)
        /\ outcome.endToEnd.direction = BandOf(sample.cx, FRAME_SIZE)
        /\ outcome.dense.direction = outcome.endToEnd.direction

\* a centre exactly on the first third has been classified
C13_Witness ==
    /\ Classified
    /\ 3 * sample.cx = sample.frameW
    /\ outcome.getDirection = "center" /\ outcome.getDirection_mobile = "center"

\* both alert builders have run on the list `sample`
Announced == sample.kind = "list" /\ outcome.ran

\* the detections of a list that are close and ahead, in the list's order
WorthyOf(list) ==
    SelectSeq(list, LAMBDA d : d.proximity = "close" /\ d.direction = "center")

\* "{label} ahead." for each detection, separated by spaces
RECURSIVE Sentences(_)
Sentences(list) ==
    IF list = <<>> THEN ""
    ELSE list[1].label \o " ahead." \o
         (IF Len(list) > 1 THEN " " \o Sentences(Tail(list)) ELSE "")

\* the message the statements give a list
MessageOf(list) ==
    LET worthy == WorthyOf(list)
        first  == SubSeq(worthy, 1, IF Len(worthy) < 4 THEN Len(worthy) ELSE 4)
    IN  IF worthy = <<>> THEN "" ELSE "Caution. " \o Sentences(first)

\* C14: the alert message names only detections that are close and ahead,
\* at most four of them, the first four in the order of the list, as
\* "Caution. " followed by "{label} ahead" per detection joined by periods;
\* it is empty exactly when no detection is close and ahead.
C14_AlertContent ==
    Announced =>
        /\ outcome.web = MessageOf(sample.list)
        /\ outcome.mobile = MessageOf(sample.list)
        /\ (outcome.web = "") = ~AlertWorthy(sample.list)
        /\ (outcome.mobile = "") = ~AlertWorthy(sample.list)

\* a list of five detections close and ahead, not all of one kind, has been
\* announced by its first four
C14_Witness ==
    /\ Announced
    /\ Len(WorthyOf(sample.list)) = 5
    /\ sample.list[1].label # sample.list[5].label
    /\ outcome.web = "Caution. " \o Sentences(SubSeq(sample.list, 1, 4))

---------------------------------------------------------------------------
(* Properties of the loops over time (Spec) *)

\* the calls of the log that made no utterance
Unspoken(log) == {k \in DOMAIN log : ~log[k].uttered}

\* C15: an alert whose utterance fails is not retried: the evaluation still
\* sets lastAlertTimestamp to its instant, and no other alert is attempted
\* within 4000 ms of the failed one, on the page or on the phone.
C15_NoRetryAfterSpeechFailure ==
    /\ \A k \in Unspoken(spoken) : \A j \in DOMAIN spoken :
          j > k => spoken[j].t - spoken[k].t >= VOICE_ALERT_INTERVAL_MS
    /\ \A k \in Unspoken(mSpoken) : \A j \in DOMAIN mSpoken :
          j > k => mSpoken[j].t - mSpoken[k].t >= VOICE_ALERT_INTERVAL_MS
    /\ (CallDone /\ \E k \in Unspoken(spoken) : spoken[k].t = lastEval.now)
          => lastVoiceTimeRef = lastEval.now

\* the only alert so far failed to be uttered, and an evaluation less than
\* 4000 ms later found alert-worthy detections and attempted nothing
C15_Witness ==
    /\ Len(spoken) = 1 /\ ~spoken[1].uttered
    /\ CallDone /\ AlertWorthy(lastEval.items)
    /\ lastEval.now > spoken[1].t
    /\ lastEval.now - spoken[1].t < VOICE_ALERT_INTERVAL_MS

\* C16: at most one inference is in flight at any time: a frame tick that
\* arrives while an earlier inference has not completed starts none.
C16_SingleInferenceInFlight == Len(inflight) <= 1

\* C17: after teardown nothing is published, spoken or stamped: once the
\* page's loop is cancelled (or the phone's screen unmounted), a step changes
\* neither the published detections, nor the log of alerts, nor
\* lastAlertTimestamp, whatever was in flight at teardown.
C17_TeardownDiscardsInFlight ==
    [][ /\ ~rafActive => UNCHANGED <<detectionsRef, spoken, lastVoiceTimeRef>>
        /\ ~mMounted  => UNCHANGED <<mDetections, mSpoken>> ]_vars

\* the inference of the page's detect() call that finished last was rejected
CallFailed == lastEval.kind = "failed"

\* C18: when an admitted frame finishes, the published list is exactly that
\* frame's suppressed result, and the empty list when its inference or
\* decode failed: nothing of an earlier frame stays published.
C18_FullReplacement ==
    /\ CallDone   => detectionsRef = lastEval.items
    /\ CallFailed => detectionsRef = <<>>
    /\ FrameDone  => mDetections = MobilePublished(mResults)

---------------------------------------------------------------------------
(* The dense scenario (DecodeSpec) *)

\* a dense output whose only candidate is anchor 17: cx = 320, cy = 500,
\* w = 80, h = 200, class 39 (bottle) with score 0.5
BottleScene == OneAnchor(17, <<320, 500, 80, 200>>, 39, 500)

BottleFrame == DenseBuffer(BottleScene, (4 + numClass) * numAnchors)

BottleOutput == <<TensorOfEntries(<<1, 4 + numClass, numAnchors>>, BottleScene)>>

\* C19: a dense output with the single bottle anchor (320, 500, 80, 200) at
\* score 0.5 yields exactly one detection, labelled as a bottle, of
\* proximity medium (area ratio 16000 / 409600) and direction center: on the
\* phone in its 640 x 640 frame, and on the page after scaling to the canvas.
C19_DenseScenario ==
    /\ (FrameDone /\ mData = BottleFrame) =>
          /\ Len(mDetections) = 1
          /\ mDetections[1].rawClass = "bottle"
          /\ mDetections[1].label = DisplayLabel("bottle")
          /\ mDetections[1].score = 500
          /\ mDetections[1].x = 280 /\ mDetections[1].y = 400
          /\ mDetections[1].w = 80 /\ mDetections[1].h = 200
          /\ mDetections[1].proximity = "medium"
          /\ mDetections[1].direction = "center"
    /\ (CallDone /\ lastEval.input = BottleOutput) =>
          /\ Len(detectionsRef) = 1
          /\ detectionsRef[1].rawClass = "bottle"
          /\ detectionsRef[1].label = DisplayLabel("bottle")
          /\ detectionsRef[1].proximity = "medium"
          /\ detectionsRef[1].direction = "center"

\* the phone has decoded the scenario's frame and published one detection
C19_Witness ==
    /\ FrameDone /\ mData = BottleFrame
    /\ Len(mDetections) = 1 /\ mDetections[1].proximity = "medium"

\* C20: a fault raised while one frame is processed leaves the frame loop
\* scheduled: a step in which the page's detect() ends in its catch block
\* keeps the pending animation frame, and the loop of the page's first
\* detector never stops.
C20_FaultIsolation ==
    [][ /\ (lastEval'.kind = "failed" /\ lastEval' # lastEval) => rafActive' = rafActive
        /\ graphLoop'.at # "stopped" ]_vars

---------------------------------------------------------------------------
(* Invariants of suppression (NMSSpec) *)

\* intersection area of two boxes, clamped to zero when they do not overlap
InterArea(a, b) ==
    LET left   == IF a.x > b.x THEN a.x ELSE b.x
        top    == IF a.y > b.y THEN a.y ELSE b.y
        right  == IF a.x + a.w < b.x + b.w THEN a.x + a.w ELSE b.x + b.w
        bottom == IF a.y + a.h < b.y + b.h THEN a.y + a.h ELSE b.y + b.h
    IN  (IF right > left THEN right - left ELSE 0)
          * (IF bottom > top THEN bottom - top ELSE 0)

\* IoU(a, b) > 0.45, IoU being 0 when the union has no area
Overlapping(a, b) ==
    LET inter == InterArea(a, b)
        union == a.w * a.h + b.w * b.h - inter
    IN  union > 0 /\ inter * 100 > 45 * union

\* how often the candidate d occurs in the list s
CountIn(d, s) == Cardinality({i \in DOMAIN s : s[i] = d})

\* C21: in the output of applyNMS, on the page and on the phone, no two
\* survivors of the same label have IoU above 0.45 (the intersection clamped
\* to zero, IoU 0 for a union without area), and every candidate whose box
\* has no area survives.
C21_NoOverlappingSurvivors ==
    BothRan => \A out \in {webOut.out, mobOut.out} :
        /\ \A i, j \in DOMAIN out :
              (i < j /\ out[i].label = out[j].label) => ~Overlapping(out[i], out[j])
        /\ \A k \in DOMAIN items :
              items[k].w * items[k].h = 0 => CountIn(items[k], out) = CountIn(items[k], items)

\* a list with a box without area lying inside a box of the same label, and
\* a second copy of that box: suppression removed the copy and kept the others
C21_Witness ==
    /\ BothRan /\ Len(items) = 3
    /\ items[1].w = 0 /\ items[1].h = 100
    /\ items[2] = items[3] /\ items[2].w = 100 /\ items[2].x = 0
    /\ Len(webOut.out) = 2 /\ Len(mobOut.out) = 2

---------------------------------------------------------------------------
(* The dense arg-max (DecodeSpec) *)

\* the anchors of a dense frame, or of a dense tensor, that hold a value
\* other than 0 (every other anchor has the box 0 and 80 scores of 0)
AnchorsOfFrame(data) == {idx % numAnchors : idx \in DOMAIN data.cells}
AnchorsOfTensor(t) == {rc[2] : rc \in DOMAIN t.cells}

\* the 80 class scores of anchor i
ScoresOfFrame(data, i) == [c \in 0..(numClass - 1) |-> Read(data, (4 + c) * numAnchors + i)]
ScoresOfTensor(t, i) ==
    [c \in 0..(numClass - 1) |->
        IF <<4 + c, i>> \in DOMAIN t.cells THEN t.cells[<<4 + c, i>>] ELSE 0]

\* the maximum of the scores, and the lowest class that has it
TopScore(scores) ==
    CHOOSE m \in {scores[c] : c \in DOMAIN scores} : \A c \in DOMAIN scores : scores[c] <= m
TopClass(scores) ==
    CHOOSE c \in DOMAIN scores :
        /\ scores[c] = TopScore(scores)
        /\ \A b \in DOMAIN scores : b < c => scores[b] < TopScore(scores)

\* the anchor yields a candidate: a positive maximum that passes the gate
YieldsOnPhone(scores) ==
    TopScore(scores) > 0 /\ PassesMobile(TopScore(scores), CLASS_NAMES[TopClass(scores) + 1])
YieldsOnPage(scores) ==
    TopScore(scores) > 0 /\ PassesWeb(TopScore(scores), CLASS_NAMES[TopClass(scores) + 1])

\* the output tensor of the call that finished last, when it is a dense one
DenseCall ==
    /\ CallDone /\ lastEval.type = "yolo" /\ Len(lastEval.input) = 1
    /\ lastEval.input[1].shape = <<1, 4 + numClass, numAnchors>>

\* C22: in the dense layout every anchor gives at most one candidate, in
\* anchor order: its class is the class with the maximum of the anchor's 80
\* class scores (the lowest index on ties), its score that maximum, its box
\* read from rows 0 to 3 of the anchor's column; an anchor without a
\* positive score gives none.  On the phone and on the page.
C22_DenseArgMax ==
    /\ (FrameDone /\ mData.len = (4 + numClass) * numAnchors) =>
          \E order \in {Ascending({i \in AnchorsOfFrame(mData) :
                                      YieldsOnPhone(ScoresOfFrame(mData, i))})} :
              /\ Len(mResults) = Len(order)
              /\ \A k \in DOMAIN order :
                    \E scores \in {ScoresOfFrame(mData, order[k])} :
                        /\ mResults[k].rawClass = CLASS_NAMES[TopClass(scores) + 1]
                        /\ mResults[k].score = TopScore(scores)
                        /\ mResults[k].w = Read(mData, 2 * numAnchors + order[k])
                        /\ mResults[k].h = Read(mData, 3 * numAnchors + order[k])
                        /\ mResults[k].x = Read(mData, order[k]) - mResults[k].w \div 2
                        /\ mResults[k].y =
                              Read(mData, numAnchors + order[k]) - mResults[k].h \div 2
    /\ DenseCall =>
          \E t \in {lastEval.input[1]} :
          \E order \in {Ascending({i \in AnchorsOfTensor(t) :
                                      YieldsOnPage(ScoresOfTensor(t, i))})} :
              /\ Len(lastEval.raw) = Len(order)
              /\ \A k \in DOMAIN order :
                    \E scores \in {ScoresOfTensor(t, order[k])} :
                        /\ lastEval.raw[k].rawClass = CLASS_NAMES[TopClass(scores) + 1]
                        /\ lastEval.raw[k].score = TopScore(scores)
                        /\ lastEval.raw[k].w = (t.cells[<<2, order[k]>>] * CanvasSize.w) \div 640
                        /\ lastEval.raw[k].h = (t.cells[<<3, order[k]>>] * CanvasSize.h) \div 640

\* the phone has decoded the frame with the three anchors: the tie of anchor
\* 3 went to class 0, anchor 4 gave its later class, anchor 8 gave nothing
C22_Witness ==
    /\ FrameDone /\ mData = DenseBuffer(ArgMaxScene, (4 + numClass) * numAnchors)
    /\ Len(mResults) = 2
    /\ mResults[1].rawClass = "person" /\ mResults[1].score = 600
    /\ mResults[2].rawClass = "dining table" /\ mResults[2].score = 700

---------------------------------------------------------------------------
(* Admission and the alert state over time (Spec) *)

\* C23: the page admits frames by dropping: an admitted frame is at least
\* 120 ms after the one admitted before it; a tick that comes sooner starts
\* no inference and leaves the published list and lastAlertTimestamp as they
\* were; and an inference is only ever started for the tick at hand.
C23_AdmissionByDropping ==
    [][ /\ lastDetectTimeRef' # lastDetectTimeRef =>
              /\ lastDetectTimeRef' = clock'
              /\ lastDetectTimeRef' - lastDetectTimeRef >= 120
        /\ (clock' # clock /\ clock' - lastDetectTimeRef < 120) =>
              UNCHANGED <<lastDetectTimeRef, inflight, detectionsRef, lastVoiceTimeRef>>
        /\ Len(inflight') > Len(inflight) =>
              /\ clock' # clock
              /\ inflight'[Len(inflight')].now = clock'
              /\ SubSeq(inflight', 1, Len(inflight)) = inflight ]_vars

\* a tick has come 100 ms after an admitted frame whose inference is pending
C23_Witness ==
    /\ lastDetectTimeRef > 0 /\ clock - lastDetectTimeRef = 100
    /\ Len(inflight) = 1 /\ inflight[1].now = lastDetectTimeRef

---------------------------------------------------------------------------
(* More invariants of suppression (NMSSpec) *)

\* C24: applyNMS, on the page and on the phone, returns an empty list and a
\* list of one candidate as they are.
C24_ShortListsUnchanged ==
    (BothRan /\ Len(items) <= 1) => (webOut.out = items /\ mobOut.out = items)

\* a list of one candidate went through both suppressors
C24_Witness ==
    /\ BothRan /\ Len(items) = 1
    /\ webOut.out = items /\ mobOut.out = items

\* C25: lastAlertTimestamp is changed only by an alert evaluation, and an
\* alert evaluation changes nothing else: a step changes lastAlertTimestamp
\* only when a frame's cooldown check finds the alert due, and then to that
\* frame's instant; a frame that is decoded, suppressed, drawn and published
\* while the alert is not due leaves it as it was; the list a frame
\* published is the list left after its alert evaluation; the phone's alert
\* tick leaves the published list as it was.
C25_AlertStateOwnership ==
    [][ /\ lastVoiceTimeRef' # lastVoiceTimeRef =>
              /\ lastEval' # lastEval /\ lastEval'.kind = "done" /\ lastEval'.due
              /\ lastVoiceTimeRef' = lastEval'.now
        /\ (lastEval' # lastEval /\ lastEval'.kind = "done") =>
              /\ detectionsRef' = lastEval'.items
              /\ ~lastEval'.due => lastVoiceTimeRef' = lastVoiceTimeRef
        /\ mSpoken' # mSpoken => mDetections' = mDetections ]_vars

\* a frame that published detections while the alert was not due
C25_Witness ==
    /\ CallDone /\ ~lastEval.due /\ lastEval.items # <<>>
    /\ detectionsRef = lastEval.items
    /\ lastVoiceTimeRef = lastEval.voiceBefore /\ lastVoiceTimeRef > 0

\* C26: suppression only removes dominated candidates.  On the page and on
\* the phone the output of applyNMS holds no candidate more often than the
\* input does; for every label of the input a candidate with the label's
\* highest score survives; and every candidate removed has IoU above 0.45
\* with a survivor of its label whose score is not below its own.
C26_OnlyDominatedRemoved ==
    BothRan => \A out \in {webOut.out, mobOut.out} :
        /\ \A j \in DOMAIN out : CountIn(out[j], out) <= CountIn(out[j], items)
        /\ \A k \in DOMAIN items : \E j \in DOMAIN out :
              /\ out[j].label = items[k].label
              /\ \A i \in DOMAIN items :
                    items[i].label = items[k].label => out[j].score >= items[i].score
        /\ \A k \in DOMAIN items :
              CountIn(items[k], out) < CountIn(items[k], items) =>
                 \E j \in DOMAIN out :
                    /\ out[j].label = items[k].label
                    /\ out[j].score >= items[k].score
                    /\ Overlapping(items[k], out[j])

\* of three candidates the first, overlapped by the higher-scored second of
\* its label, has been removed and the other two kept
C26_Witness ==
    /\ BothRan /\ Len(items) = 3
    /\ items[1].label = items[2].label /\ items[1].score < items[2].score
    /\ Overlapping(items[1], items[2])
    /\ Len(webOut.out) = 2 /\ Len(mobOut.out) = 2
    /\ webOut.out[1] = items[2] /\ mobOut.out[1] = items[2]

\* C27: the two suppressors agree: for every candidate list the phone's
\* applyNMS and the page's applyNMS return the same detections in the same
\* order.
C27_SuppressorsAgree == BothRan => webOut.out = mobOut.out

\* C28: published results never regress: a frame of the page that publishes
\* after another frame has published was admitted after that frame.
C28_NoRegression ==
    [][ (lastEval.kind = "done" /\ lastEval'.kind = "done" /\ lastEval' # lastEval)
            => lastEval'.now > lastEval.now ]_vars

\* C29: lastAlertTimestamp never decreases: every step that changes it
\* stores the instant of the evaluation that just finished, an instant at
\* least 4000 ms after the value it replaces.
C29_TimestampMonotone ==
    [][ lastVoiceTimeRef' # lastVoiceTimeRef =>
            /\ lastEval'.kind = "done" /\ lastEval' # lastEval
            /\ lastVoiceTimeRef' = lastEval'.now
            /\ lastEval'.now - lastVoiceTimeRef >= 4000 ]_vars

\* an older frame finished after a newer one had taken the timestamp, and
\* left it alone
C29_Witness ==
    /\ CallDone /\ lastEval.now < lastVoiceTimeRef
    /\ lastEval.voiceBefore = lastVoiceTimeRef
    /\ lastVoiceTimeRef >= 4000

\* C30: the scheduler starts in Idle: an evaluation of the page that finds
\* alert-worthy detections while lastAlertTimestamp still has its initial
\* value speaks, however soon after the start it is made.
C30_StartsIdle ==
    (CallDone /\ lastEval.voiceBefore = 0 /\ AlertWorthy(lastEval.items)) => SpokeNow

===========================================================================
